---- MODULE Spec2Model ----
(***************************************************************************)
(* H-DATA "AI Data Doctor" (src/app.py): the diagnostic of an uploaded     *)
(* table (analyse_data) and the automatic correction loop that applies the *)
(* proposed remedies to the working DataFrame df.                          *)
(*                                                                         *)
(* A DataFrame is a sequence of rows; a row carries its index label (the   *)
(* RangeIndex given by read_csv, kept by drop_duplicates) and one cell per *)
(* column.  A cell is missing (NaN), a number or a text.  Numbers are held *)
(* in fixed point, in quarters (the number n is stored as 4*n), so that    *)
(* the median of an even count of values, and the median of a column that  *)
(* already holds such a median, are exact; a text is held as the number    *)
(* that identifies it, the code only ever compares texts for equality.     *)
(* Arithmetic is exact: the rounding of float64 is not modelled, and       *)
(* Series.fillna(inplace=True) on df[col] writes through to df, as it does *)
(* in the pandas versions without copy-on-write the script was written for.*)
(***************************************************************************)
EXTENDS Integers, Sequences, FiniteSets, TLC

VARIABLES uploaded,   \* the table as parsed from the uploaded file
          df,         \* the working DataFrame
          dtypes,     \* df[col].dtype for every column
          diag_df,    \* the diagnostic table returned by analyse_data
          pos,        \* position of diag_df.iterrows() in the correction loop
          pc          \* position of the script

vars == <<uploaded, df, dtypes, diag_df, pos, pc>>

----------------------------------------------------------------------------
(* Bounds of the model *)

\* rows of the regular part of an uploaded column (a ramp 1, 2, ... or a constant)
MaxBody == 11
\* rows of freely chosen cells that follow the regular part
MaxFree == 2

----------------------------------------------------------------------------
(* Cells, columns, tables *)

ColNames == <<"A", "B">>

Columns == {ColNames[k] : k \in 1..Len(ColNames)}

NaN == [kind |-> "nan", v |-> 0]

Num(n) == [kind |-> "num", v |-> 4 * n]

Text(n) == [kind |-> "str", v |-> n]

\* df[col]: the column as a sequence of cells
Series(d, col) == [r \in 1..Len(d) |-> d[r].cells[col]]

isnull(c) == c.kind = "nan"

\* the non-missing values of a column (skipna)
Present(s) == SelectSeq(s, LAMBDA c : ~isnull(c))

RECURSIVE SumV(_)
SumV(s) == IF s = <<>> THEN 0 ELSE Head(s).v + SumV(Tail(s))

\* df[col].isnull().sum()
CountNull(s) == Len(s) - Len(Present(s))

\* read_csv: a column is object when it holds a text (or the file has no row),
\* float64 when it holds numbers and a missing cell (or only missing cells),
\* int64 when it holds numbers only
InferDtype(s) ==
    IF Len(s) = 0 \/ \E r \in 1..Len(s) : s[r].kind = "str" THEN "object"
    ELSE IF \E r \in 1..Len(s) : isnull(s[r]) THEN "float64"
    ELSE "int64"

\* df[col].dtype in [np.float64, np.int64]
IsNumeric(dt) == dt \in {"float64", "int64"}

----------------------------------------------------------------------------
(* Statistics of a column.  With n the count of the non-missing values and *)
(* sum their sum, n * x - sum is n times the deviation x - mean, and the   *)
(* sum of its squares is n * n * (n - 1) times the square of the sample    *)
(* standard deviation: both are exact in integers.                         *)

RECURSIVE SumSqDevN(_, _, _)
SumSqDevN(p, n, sum) ==
    IF p = <<>> THEN 0
    ELSE (n * Head(p).v - sum) * (n * Head(p).v - sum) + SumSqDevN(Tail(p), n, sum)

\* what df[col].mean() and df[col].std() are computed from (skipna, ddof = 1)
MeanStd(s) ==
    LET p == Present(s)
        n == Len(p)
        sum == SumV(p)
    IN  [n |-> n, sum |-> sum, ssd |-> SumSqDevN(p, n, sum)]

\* a / b > c / d for a, c >= 0 and b, d > 0, without forming a * d and c * b
FracGreater(a, b, c, d) ==
    IF a \div b # c \div d THEN a \div b > c \div d
    ELSE (a % b) * d > (c % d) * b

\* the factor of the standard deviation in the outlier test
Sigmas == 3

\* IsOutlier with a threshold of two standard deviations
IsOutlier_TwoSigma(st, c) ==
    /\ ~isnull(c)
    /\ st.n >= 2
    /\ FracGreater((st.n * c.v - st.sum) * (st.n * c.v - st.sum), 2 * 2,
                   st.ssd, st.n - 1)

\* (x - mean).abs() > 3 * std for the cell c, mean and std given by st:
\* (x - mean)^2 / 9 > (sum of squared deviations) / (n - 1); with fewer than two
\* values std is NaN and the comparison is False, as it is for a missing x
IsOutlier(st, c) ==
    /\ ~isnull(c)
    /\ st.n >= 2
    /\ FracGreater((st.n * c.v - st.sum) * (st.n * c.v - st.sum), Sigmas * Sigmas,
                   st.ssd, st.n - 1)

\* ((df[col] - df[col].mean()).abs() > 3 * df[col].std()).sum()
CountOutliers(s) ==
    LET st == MeanStd(s)
    IN  Cardinality({r \in 1..Len(s) : IsOutlier(st, s[r])})

\* the k-th smallest of the values p
OrderStat(p, k) ==
    p[CHOOSE j \in 1..Len(p) :
        /\ Cardinality({q \in 1..Len(p) : p[q].v < p[j].v}) < k
        /\ Cardinality({q \in 1..Len(p) : p[q].v <= p[j].v}) >= k].v

\* df[col].median(): NaN when every cell is missing
Median(s) ==
    LET p == Present(s)
        n == Len(p)
    IN  IF n = 0 THEN NaN
        ELSE IF n % 2 = 1 THEN [kind |-> "num", v |-> OrderStat(p, (n + 1) \div 2)]
        ELSE [kind |-> "num",
              v |-> (OrderStat(p, n \div 2) + OrderStat(p, n \div 2 + 1)) \div 2]

\* df[col].duplicated(): the cell repeats an earlier cell of the column; two
\* missing cells are equal to each other
duplicated(s, r) == \E q \in 1..(r - 1) : s[q] = s[r]

\* df[col].duplicated().sum()
CountDuplicated(s) == Cardinality({r \in 1..Len(s) : duplicated(s, r)})

----------------------------------------------------------------------------
(* analyse_data *)

Issue(col, probleme, nb, proposition) ==
    [Colonne |-> col, Probleme |-> probleme, Nb |-> nb, Proposition |-> proposition]

MissingIssue(d, col) ==
    IF CountNull(Series(d, col)) > 0
    THEN <<Issue(col, "Valeurs manquantes", CountNull(Series(d, col)),
                 "Remplacer par moyenne/mediane")>>
    ELSE <<>>

OutlierIssue(d, dt, col) ==
    IF IsNumeric(dt[col]) /\ CountOutliers(Series(d, col)) > 0
    THEN <<Issue(col, "Valeurs aberrantes", CountOutliers(Series(d, col)),
                 "Remplacer par mediane")>>
    ELSE <<>>

\* DuplicateIssue counting every cell that occurs more than once (keep=False)
DuplicateIssue_AllOccurrences(d, col) ==
    LET s == Series(d, col)
        nb == Cardinality({r \in 1..Len(s) : \E q \in 1..Len(s) : q # r /\ s[q] = s[r]})
    IN  IF nb > 0 THEN <<Issue(col, "Doublons", nb, "Supprimer doublons")>> ELSE <<>>

DuplicateIssue(d, col) ==
    IF \E r \in 1..Len(d) : duplicated(Series(d, col), r)
    THEN <<Issue(col, "Doublons", CountDuplicated(Series(d, col)),
                 "Supprimer doublons")>>
    ELSE <<>>

RECURSIVE AnalyseFrom(_, _, _)
AnalyseFrom(d, dt, k) ==
    IF k > Len(ColNames) THEN <<>>
    ELSE MissingIssue(d, ColNames[k]) \o OutlierIssue(d, dt, ColNames[k])
         \o DuplicateIssue(d, ColNames[k]) \o AnalyseFrom(d, dt, k + 1)

analyse_data(d, dt) == AnalyseFrom(d, dt, 1)

----------------------------------------------------------------------------
(* The remedies of the correction loop *)

\* word in row["Probleme"]
InLabel(word, label) ==
    \/ word = "manquantes" /\ label = "Valeurs manquantes"
    \/ word = "aberrantes" /\ label = "Valeurs aberrantes"
    \/ word = "Doublons" /\ label = "Doublons"

SetCell(row, col, c) == [row EXCEPT !.cells[col] = c]

\* fillna without the test of the dtype
fillna_AnyDtype(d, dt, col) ==
    LET median == Median(Series(d, col))
    IN  [r \in 1..Len(d) |->
            IF isnull(d[r].cells[col]) THEN SetCell(d[r], col, median) ELSE d[r]]

\* df[col].fillna(df[col].median(), inplace=True), for a numeric column only
fillna(d, dt, col) ==
    LET median == Median(Series(d, col))
    IN  IF IsNumeric(dt[col])
        THEN [r \in 1..Len(d) |->
                IF isnull(d[r].cells[col]) THEN SetCell(d[r], col, median) ELSE d[r]]
        ELSE d

\* replace_outliers with the mean, std and median of the column as diagnosed
replace_outliers_AsDiagnosed(d, col) ==
    LET st == MeanStd(Series(uploaded, col))
        median == Median(Series(uploaded, col))
    IN  [r \in 1..Len(d) |->
            IF IsOutlier(st, d[r].cells[col]) THEN SetCell(d[r], col, median) ELSE d[r]]

\* mean, std = df[col].mean(), df[col].std()
\* df[col] = np.where((df[col] - mean).abs() > 3*std, df[col].median(), df[col])
replace_outliers(d, col) ==
    LET st == MeanStd(Series(d, col))
        median == Median(Series(d, col))
    IN  [r \in 1..Len(d) |->
            IF IsOutlier(st, d[r].cells[col]) THEN SetCell(d[r], col, median) ELSE d[r]]

\* df.drop_duplicates(subset=[col], inplace=True): keeps the first occurrence
RECURSIVE KeepFrom(_, _, _)
KeepFrom(d, s, r) ==
    IF r > Len(d) THEN <<>>
    ELSE (IF duplicated(s, r) THEN <<>> ELSE <<d[r]>>) \o KeepFrom(d, s, r + 1)

\* drop_duplicates dropping every occurrence of a repeated cell (keep=False)
drop_duplicates_KeepNone(d, col) ==
    LET s == Series(d, col)
    IN  SelectSeq(d, LAMBDA row :
            Cardinality({q \in 1..Len(s) : s[q] = row.cells[col]}) = 1)

\* drop_duplicates without subset: only the rows equal in every column are dropped
drop_duplicates_AllColumns(d, col) ==
    LET RECURSIVE Keep(_)
        Keep(r) ==
            IF r > Len(d) THEN <<>>
            ELSE (IF \E q \in 1..(r - 1) : d[q].cells = d[r].cells THEN <<>> ELSE <<d[r]>>)
                 \o Keep(r + 1)
    IN  Keep(1)

\* drop_duplicates with ignore_index=True: the rows kept are labelled 0, 1, ...
drop_duplicates_ResetIndex(d, col) ==
    LET kept == KeepFrom(d, Series(d, col), 1)
    IN  [r \in 1..Len(kept) |-> [kept[r] EXCEPT !.idx = r - 1]]

drop_duplicates(d, col) == KeepFrom(d, Series(d, col), 1)

----------------------------------------------------------------------------
(* The uploaded files *)

\* a cell of the file: n = 0 is an empty field
MakeCell(kind, n) == IF n = 0 THEN NaN ELSE IF kind = "num" THEN Num(n) ELSE Text(n)

\* the index labels 0, 1, ... that read_csv gives the rows
Indexed(cellRows) ==
    [r \in 1..Len(cellRows) |-> [idx |-> r - 1, cells |-> cellRows[r]]]

\* the table with the given content of columns A and B
Table(kinds, a, b) ==
    Indexed([r \in 1..Len(a) |->
                [c \in Columns |-> MakeCell(kinds[c], IF c = "A" THEN a[r] ELSE b[r])]])

\* row r of the regular part of a column: a ramp 1, 2, ... or a constant
BodyValue(shape, r) == IF shape = "ramp" THEN r ELSE 1

\* the content of a freely chosen cell: empty or 100
FreeValues == {0, 100}

RECURSIVE SeqsUpTo(_, _)
SeqsUpTo(S, n) ==
    IF n = 0 THEN {<<>>}
    ELSE SeqsUpTo(S, n - 1)
         \cup {Append(q, x) : q \in {p \in SeqsUpTo(S, n - 1) : Len(p) = n - 1}, x \in S}

Generated ==
    { Table(kinds,
            [r \in 1..t |-> BodyValue(shapes["A"], r)] \o [r \in 1..Len(free) |-> free[r][1]],
            [r \in 1..t |-> BodyValue(shapes["B"], r)] \o [r \in 1..Len(free) |-> free[r][2]]) :
        kinds \in [Columns -> {"num", "str"}],
        shapes \in [Columns -> {"ramp", "const"}],
        t \in 0..MaxBody,
        free \in SeqsUpTo(FreeValues \X FreeValues, MaxFree) }

\* the example columns of the documentation: B = [1, ..., 9, 1000],
\* C = [5, 5, 7, 5, 9], A = [1, null, 3, null] and B = [10, 12, 11, 13, 1000]
Examples ==
    { Table([A |-> "str", B |-> "num"],
            <<1, 2, 3, 4, 5, 6, 7, 8, 9, 10>>, <<1, 2, 3, 4, 5, 6, 7, 8, 9, 1000>>),
      Table([A |-> "num", B |-> "str"], <<5, 5, 7, 5, 9>>, <<1, 2, 3, 4, 5>>),
      Table([A |-> "num", B |-> "num"], <<1, 0, 3, 0, 5>>, <<10, 12, 11, 13, 1000>>) }

Files == Generated \cup Examples

----------------------------------------------------------------------------
(* The script *)

Init ==
    /\ uploaded \in Files
    /\ df = uploaded
    /\ dtypes = [c \in Columns |-> InferDtype(Series(uploaded, c))]
    /\ diag_df = <<>>
    /\ pos = 0
    /\ pc = "loaded"

\* diag_df = analyse_data(df)
Diagnose ==
    /\ pc = "loaded"
    /\ diag_df' = analyse_data(df, dtypes)
    /\ pc' = "diagnosed"
    /\ UNCHANGED <<uploaded, df, dtypes, pos>>

\* the checkbox is ticked: the loop over diag_df.iterrows() starts
Tick ==
    /\ pc = "diagnosed"
    /\ pc' = "correcting"
    /\ pos' = 1
    /\ UNCHANGED <<uploaded, df, dtypes, diag_df>>

\* the checkbox is left unticked: the script goes on with df as loaded
Untick ==
    /\ pc = "diagnosed"
    /\ pc' = "skipped"
    /\ UNCHANGED <<uploaded, df, dtypes, diag_df, pos>>

InLoop == pc = "correcting" /\ pos <= Len(diag_df)

\* one iteration of the loop on a row with "manquantes"
FillMissing ==
    /\ InLoop
    /\ InLabel("manquantes", diag_df[pos].Probleme)
    /\ df' = fillna(df, dtypes, diag_df[pos].Colonne)
    /\ pos' = pos + 1
    /\ UNCHANGED <<uploaded, dtypes, diag_df, pc>>

\* one iteration of the loop on a row with "aberrantes"; np.where gives float64
ReplaceOutliers ==
    /\ InLoop
    /\ InLabel("aberrantes", diag_df[pos].Probleme)
    /\ df' = replace_outliers(df, diag_df[pos].Colonne)
    /\ dtypes' = [dtypes EXCEPT ![diag_df[pos].Colonne] = "float64"]
    /\ pos' = pos + 1
    /\ UNCHANGED <<uploaded, diag_df, pc>>

\* one iteration of the loop on a row with "Doublons"
DropDuplicates ==
    /\ InLoop
    /\ InLabel("Doublons", diag_df[pos].Probleme)
    /\ df' = drop_duplicates(df, diag_df[pos].Colonne)
    /\ pos' = pos + 1
    /\ UNCHANGED <<uploaded, dtypes, diag_df, pc>>

\* the loop is over: "Corrections appliquees automatiquement avec succes"
Finish ==
    /\ pc = "correcting"
    /\ pos > Len(diag_df)
    /\ pc' = "corrected"
    /\ UNCHANGED <<uploaded, df, dtypes, diag_df, pos>>

Next ==
    \/ Diagnose
    \/ Tick
    \/ Untick
    \/ FillMissing
    \/ ReplaceOutliers
    \/ DropDuplicates
    \/ Finish

Spec == Init /\ [][Next]_vars

----------------------------------------------------------------------------
(* Vocabulary of the properties *)

TypeOK ==
    /\ pc \in {"loaded", "diagnosed", "correcting", "skipped", "corrected"}
    /\ pos \in 0..(Len(diag_df) + 1)
    /\ \A r \in 1..Len(df) : \A c \in Columns : df[r].cells[c].kind \in {"nan", "num", "str"}

Kinds == <<"Valeurs manquantes", "Valeurs aberrantes", "Doublons">>

ColRank(col) == CHOOSE k \in 1..Len(ColNames) : ColNames[k] = col

KindRank(kind) == CHOOSE k \in 1..Len(Kinds) : Kinds[k] = kind

Diagnosed == pc # "loaded"

\* the report has an issue of this kind for this column
HasIssue(col, kind) ==
    \E k \in 1..Len(diag_df) : diag_df[k].Colonne = col /\ diag_df[k].Probleme = kind

\* the cells of a column that have no value
MissingCells(d, col) == {r \in 1..Len(d) : d[r].cells[col].kind = "nan"}

\* the cells of a column whose value is the value of an earlier cell
ValueRepeats(d, col) ==
    {r \in 1..Len(d) : /\ d[r].cells[col].kind # "nan"
                       /\ \E q \in 1..(r - 1) : d[q].cells[col] = d[r].cells[col]}

\* the cells of a column that are without a value after an earlier cell without one
MissingRepeats(d, col) ==
    {r \in 1..Len(d) : /\ d[r].cells[col].kind = "nan"
                       /\ \E q \in 1..(r - 1) : d[q].cells[col].kind = "nan"}

\* the values of a column farther from its mean than 3 sample standard deviations
OutlierCells(d, col) ==
    LET st == MeanStd(Series(d, col))
    IN  {r \in 1..Len(d) : IsOutlier(st, d[r].cells[col])}

MissingCount(col) == Cardinality(MissingCells(uploaded, col))

OutlierCount(col) ==
    IF IsNumeric(dtypes[col]) THEN Cardinality(OutlierCells(uploaded, col)) ELSE 0

ValueRepeatCount(col) == Cardinality(ValueRepeats(uploaded, col))

CellRepeatCount(col) ==
    Cardinality(ValueRepeats(uploaded, col) \cup MissingRepeats(uploaded, col))

\* the report is, column after column and kind after kind, one issue for each
\* positive count, with that count
ReportIs(missing(_), outliers(_), repeats(_)) ==
    LET count(col, kind) ==
            IF kind = Kinds[1] THEN missing(col)
            ELSE IF kind = Kinds[2] THEN outliers(col)
            ELSE repeats(col)
    IN  /\ \A k \in 1..Len(diag_df) :
            /\ diag_df[k].Colonne \in Columns
            /\ diag_df[k].Probleme \in {Kinds[j] : j \in 1..Len(Kinds)}
            /\ diag_df[k].Nb = count(diag_df[k].Colonne, diag_df[k].Probleme)
            /\ diag_df[k].Nb > 0
        /\ \A col \in Columns : \A j \in 1..Len(Kinds) :
            count(col, Kinds[j]) > 0 => HasIssue(col, Kinds[j])
        /\ \A k \in 1..Len(diag_df) : \A l \in (k + 1)..Len(diag_df) :
            \/ ColRank(diag_df[k].Colonne) < ColRank(diag_df[l].Colonne)
            \/ /\ diag_df[k].Colonne = diag_df[l].Colonne
               /\ KindRank(diag_df[k].Probleme) < KindRank(diag_df[l].Probleme)

----------------------------------------------------------------------------
(* C1 *)

\* C1 as stated: the report is exactly one issue per column and kind whose
\* detection predicate holds, in column order and in the order missing, outliers,
\* duplicates, the duplicates being the values that repeat an earlier value.
C1_AsClaimed ==
    Diagnosed => ReportIs(MissingCount, OutlierCount, ValueRepeatCount)

\* C1, amended: the same, the duplicates being the cells that repeat an earlier
\* cell of the column, a cell without a value repeating an earlier cell without one.
C1_ReportIsDetections ==
    Diagnosed => ReportIs(MissingCount, OutlierCount, CellRepeatCount)

\* a report with the three kinds for one column and with the duplicates of a
\* column whose only repeated cells are cells without a value
C1_Witness ==
    /\ pc = "diagnosed"
    /\ \E col \in Columns : \A j \in 1..Len(Kinds) : HasIssue(col, Kinds[j])
    /\ \E col \in Columns :
        /\ HasIssue(col, "Doublons")
        /\ ValueRepeats(uploaded, col) = {}
    /\ Len(diag_df) >= 5

----------------------------------------------------------------------------
(* C2 *)

\* no remedy has anything to do: every issue is missing values of a column that
\* is not numeric or that has no value at all (so, too, when the report is empty)
NoRemedyApplies ==
    \A k \in 1..Len(diag_df) :
        /\ diag_df[k].Probleme = "Valeurs manquantes"
        /\ \/ ~IsNumeric(dtypes[diag_df[k].Colonne])
           \/ MissingCells(uploaded, diag_df[k].Colonne) = 1..Len(uploaded)

\* C2 as stated: the dataset passed into the correction step is unchanged after it.
C2_AsClaimed == pc = "corrected" => df = uploaded

\* C2, amended: the correction step works on the dataset it is given; after it
\* the dataset is unchanged if and only if no remedy of the report applies.
C2_CorrectedInPlace == pc = "corrected" => (df = uploaded <=> NoRemedyApplies)

\* the correction step has changed the cells of the dataset it was given
C2_Witness ==
    /\ pc = "corrected"
    /\ Len(df) = Len(uploaded)
    /\ df # uploaded

----------------------------------------------------------------------------
(* C3 *)

OnlyIssue(kind) == Len(diag_df) = 1 /\ diag_df[1].Probleme = kind

\* C3 as stated: when the only issue is missing values of a numeric column, the
\* corrected column has no missing cell and every cell that was missing holds the
\* median of the values the column had.
C3_AsClaimed ==
    (pc = "corrected" /\ OnlyIssue("Valeurs manquantes")
        /\ IsNumeric(dtypes[diag_df[1].Colonne]))
    => LET col == diag_df[1].Colonne
       IN  /\ MissingCells(df, col) = {}
           /\ \A r \in MissingCells(uploaded, col) :
                df[r].cells[col] = Median(Series(uploaded, col))

----------------------------------------------------------------------------
(* C4 *)

\* C4: when the only issue is duplicates of column C with count k, the dataset
\* after the correction has k rows fewer and no two rows with the same cell in C.
C4_DuplicatesRemoved ==
    (pc = "corrected" /\ OnlyIssue("Doublons"))
    => LET col == diag_df[1].Colonne
       IN  /\ Len(df) = Len(uploaded) - diag_df[1].Nb
           /\ \A r \in 1..Len(df) : \A q \in 1..(r - 1) :
                df[q].cells[col] # df[r].cells[col]

\* the case of the documentation: the only issue is duplicates with count 2
C4_Witness ==
    /\ pc = "corrected"
    /\ OnlyIssue("Doublons")
    /\ diag_df[1].Nb = 2
    /\ Len(df) = Len(uploaded) - 2

----------------------------------------------------------------------------
(* C5 *)

CanonicalB ==
    <<Num(1), Num(2), Num(3), Num(4), Num(5), Num(6), Num(7), Num(8), Num(9), Num(1000)>>

\* C5 as stated: for B = [1, ..., 9, 1000] the report has an outliers issue for B
\* with count 1.
C5_AsClaimed ==
    (Diagnosed /\ Series(uploaded, "B") = CanonicalB)
    => \E k \in 1..Len(diag_df) :
        /\ diag_df[k].Colonne = "B"
        /\ diag_df[k].Probleme = "Valeurs aberrantes"
        /\ diag_df[k].Nb = 1

\* C5, amended: for B = [1, ..., 9, 1000] no value is farther from the mean than
\* 3 sample standard deviations (with sum 1045 and sum of squares 1000285,
\* 9 * (10 x - 1045)^2 <= 9 * 10 * (10 * 1000285 - 1045^2) for every x of B) and
\* the report has no outliers issue for B.
C5_NoOutlierAmongTen ==
    (Diagnosed /\ Series(uploaded, "B") = CanonicalB)
    => /\ \A x \in (1..9) \cup {1000} :
            9 * (10 * x - 1045) * (10 * x - 1045)
                <= 9 * 10 * (10 * 1000285 - 1045 * 1045)
       /\ OutlierCells(uploaded, "B") = {}
       /\ ~HasIssue("B", "Valeurs aberrantes")

\* the diagnostic of the table with B = [1, ..., 9, 1000] has been made
C5_Witness == pc = "diagnosed" /\ Series(uploaded, "B") = CanonicalB

----------------------------------------------------------------------------
(* C6 *)

\* C6: the remedy of a missing values issue of a column that is not numeric
\* changes nothing, and the loop goes on: every iteration moves to the next
\* issue and the loop is left only after the last one.
C6_TextMissingSkipped ==
    /\ [][(InLoop /\ diag_df[pos].Probleme = "Valeurs manquantes"
             /\ ~IsNumeric(dtypes[diag_df[pos].Colonne]))
          => (df' = df /\ dtypes' = dtypes)]_vars
    /\ [][InLoop => (pos' = pos + 1 /\ pc' = "correcting" /\ diag_df' = diag_df)]_vars
    /\ [][(pc = "correcting" /\ pc' # "correcting")
          => (pos = Len(diag_df) + 1 /\ pc' = "corrected")]_vars

\* the loop is over, an issue that follows a missing values issue of a column
\* that is not numeric has been applied and has removed rows
C6_Witness ==
    /\ pc = "corrected"
    /\ \E k \in 1..Len(diag_df) :
        /\ diag_df[k].Probleme = "Valeurs manquantes"
        /\ ~IsNumeric(dtypes[diag_df[k].Colonne])
        /\ MissingCells(df, diag_df[k].Colonne) # {}
        /\ k < Len(diag_df)
    /\ Len(df) < Len(uploaded)

----------------------------------------------------------------------------
(* C7 *)

\* C7: the issues are applied one by one in the order of the report, and the
\* remedy of an outliers issue replaces, by the median of the column as it is
\* then, exactly the values farther than 3 standard deviations from the mean of
\* the column as it is then; it changes no other cell and no row.
C7_OutliersOnCurrentColumn ==
    /\ [][InLoop => (pos' = pos + 1 /\ diag_df' = diag_df)]_vars
    /\ [][(InLoop /\ diag_df[pos].Probleme = "Valeurs aberrantes")
          => LET col == diag_df[pos].Colonne
             IN  /\ Len(df') = Len(df)
                 /\ \A r \in 1..Len(df) :
                      /\ df'[r].idx = df[r].idx
                      /\ \A c \in Columns \ {col} : df'[r].cells[c] = df[r].cells[c]
                      /\ df'[r].cells[col] =
                            IF r \in OutlierCells(df, col)
                            THEN Median(Series(df, col))
                            ELSE df[r].cells[col]]_vars

\* an outliers issue has just been applied to a column that had lost rows to the
\* duplicate removal of an earlier column: a value that was an outlier when the
\* diagnostic was made is still there
C7_Witness ==
    /\ pc = "correcting"
    /\ pos > 1
    /\ diag_df[pos - 1].Probleme = "Valeurs aberrantes"
    /\ Len(df) < Len(uploaded)
    /\ \E r \in 1..Len(df) :
        IsOutlier(MeanStd(Series(uploaded, diag_df[pos - 1].Colonne)),
                  df[r].cells[diag_df[pos - 1].Colonne])

----------------------------------------------------------------------------
(* C8 *)

\* C8: after the correction no two rows have the same cell (two cells without a
\* value being the same) in a column that has a duplicates issue in the report.
C8_NoRepeatLeft ==
    pc = "corrected"
    => \A col \in Columns :
        HasIssue(col, "Doublons")
        => \A r \in 1..Len(df) : \A q \in 1..(r - 1) :
            df[q].cells[col] # df[r].cells[col]

\* both columns had duplicates, one of them missing values too, and rows are left
C8_Witness ==
    /\ pc = "corrected"
    /\ \A col \in Columns : HasIssue(col, "Doublons")
    /\ \E col \in Columns : HasIssue(col, "Valeurs manquantes")
    /\ Len(df) >= 3

----------------------------------------------------------------------------
(* C9 *)

ValueCount(d, col) == Len(d) - Cardinality(MissingCells(d, col))

\* C9: a column with an outliers issue has n >= 11 values, (n - 1)^2 > 9 n, and
\* the outliers remedy changes nothing in a column that has fewer than 11 values.
C9_NoOutlierBelowEleven ==
    /\ [](Diagnosed =>
            \A col \in Columns :
                HasIssue(col, "Valeurs aberrantes")
                => /\ ValueCount(uploaded, col) >= 11
                   /\ (ValueCount(uploaded, col) - 1) * (ValueCount(uploaded, col) - 1)
                        > 9 * ValueCount(uploaded, col))
    /\ [][(InLoop /\ diag_df[pos].Probleme = "Valeurs aberrantes"
             /\ ValueCount(df, diag_df[pos].Colonne) < 11)
          => df' = df]_vars

\* an outliers issue has just been applied to a column left with fewer than 11 values
C9_Witness ==
    /\ pc = "correcting"
    /\ pos > 1
    /\ diag_df[pos - 1].Probleme = "Valeurs aberrantes"
    /\ ValueCount(df, diag_df[pos - 1].Colonne) < 11
    /\ ValueCount(df, diag_df[pos - 1].Colonne) >= 2

----------------------------------------------------------------------------
(* C10 *)

\* C10: the rows of the dataset are rows of the uploaded table in their order,
\* and their cells in the columns without an issue are the uploaded cells.
C10_RowsAreUploadedRows ==
    /\ Len(df) <= Len(uploaded)
    /\ \A r \in 1..Len(df) :
        /\ df[r].idx \in 0..(Len(uploaded) - 1)
        /\ r > 1 => df[r - 1].idx < df[r].idx
        /\ \A c \in Columns :
            (\A j \in 1..Len(Kinds) : ~HasIssue(c, Kinds[j]))
            => df[r].cells[c] = uploaded[df[r].idx + 1].cells[c]

\* the correction has removed a row that was followed by a row it kept, and a
\* column has no issue
C10_Witness ==
    /\ pc = "corrected"
    /\ \E c \in Columns : \A j \in 1..Len(Kinds) : ~HasIssue(c, Kinds[j])
    /\ \E r \in 1..Len(df) : df[r].idx # r - 1

====
